---- MODULE Spec2Model ----
(***************************************************************************)
(* The Tic-Tac-Toe board engine of python/tictactoe/toe.py (class          *)
(* GameBoard) as a state machine.                                          *)
(*                                                                         *)
(* Python values are modelled as follows.                                  *)
(*   str    a sequence of one-character strings ("a3" is <<"a","3">>)      *)
(*   list   a sequence; tuple (row, col) the sequence <<row, col>>,        *)
(*          0-based as in the code (a sequence is indexed at row + 1)      *)
(*   dict   a sequence of <<key, value>> pairs in insertion order          *)
(*   an argument that may be a str, an int or None: a tagged record        *)
(*   an exception: the string "<type>: <start of its message>"             *)
(***************************************************************************)
EXTENDS Integers, Sequences, FiniteSets, TLC

VARIABLES phase, size, mark_to_num, num_to_mark, empty_board, board,
          winning_lines, last, nops, locals

vars == <<phase, size, mark_to_num, num_to_mark, empty_board, board,
          winning_lines, last, nops, locals>>

(* ------------------------------ bounds --------------------------------- *)

\* Board sizes 0..MaxSize are offered to the constructor.
MaxSize == 3
\* Calls of place_at, reset and load_board_string made on one board.
MaxOps == 3
\* Iterations a modelled while-loop may take before it is reported as not
\* having terminated.
LoopFuel == 6
\* Sizes 2..MaxLineSize for which the winning lines are computed on their own.
MaxLineSize == 5
\* Length of the strings given to str_to_point.
MaxPointLen == 3

(* --------------------------- Python values ----------------------------- *)

None == [t |-> "none"]
StrV(s) == [t |-> "str", v |-> s]
IntV(n) == [t |-> "int", v |-> n]
ListV(l) == [t |-> "list", v |-> l]

OK == "ok"
SizeError == "ValueError: Board size must be greater than 1."
PlayersError == "ValueError: Player marker strings can only be a single non-whitespace character each."
MarkerTypeError == "TypeError: marker_or_player must be an integer or string"
InvalidMarkerError == "ValueError: Invalid player marker"
OccupiedError == "ValueError: Something is already placed here"
PointError == "ValueError: Point string must contain 2 characters"
IntLiteralError == "ValueError: invalid literal for int() with base 10"
KeyError == "KeyError"
IndexError == "IndexError: list index out of range"

\* The empty cell, ' '.
EMPTY == <<" ">>

Min(a, b) == IF a < b THEN a ELSE b

\* s[a:b] for 0 <= a.
Slice(s, a, b) == SubSeq(s, a + 1, Min(b, Len(s)))

\* x in d, d[x], d.keys() of a dict.
DictHas(d, k) == \E i \in 1..Len(d) : d[i][1] = k
DictGet(d, k) == d[CHOOSE i \in 1..Len(d) : d[i][1] = k][2]
DictKeys(d) == [i \in 1..Len(d) |-> d[i][1]]

\* d[k] = v: an existing key keeps its place, a new key goes last.
DictSet(d, k, v) ==
    IF DictHas(d, k)
    THEN [i \in 1..Len(d) |-> IF d[i][1] = k THEN <<k, v>> ELSE d[i]]
    ELSE Append(d, <<k, v>>)

\* c.isspace(), over the characters the model uses.
IsSpace(c) == c = " "

\* s.strip(): leading and trailing whitespace removed.
RECURSIVE LStrip(_)
LStrip(s) == IF s # <<>> /\ IsSpace(Head(s)) THEN LStrip(Tail(s)) ELSE s

RECURSIVE RStrip(_)
RStrip(s) ==
    IF s # <<>> /\ IsSpace(s[Len(s)]) THEN RStrip(SubSeq(s, 1, Len(s) - 1)) ELSE s

Strip(s) == RStrip(LStrip(s))

(* ------------------------------ players -------------------------------- *)

\* {mark: n + 1 for n, mark in enumerate(players)}
RECURSIVE EnumerateDict(_, _, _)
EnumerateDict(players, n, d) ==
    IF n > Len(players) THEN d
    ELSE EnumerateDict(players, n + 1, DictSet(d, players[n], n))

\* {n: mark for mark, n in mark_to_num.items()}
RECURSIVE InvertDict(_, _, _)
InvertDict(m2n, i, d) ==
    IF i > Len(m2n) THEN d
    ELSE InvertDict(m2n, i + 1, DictSet(d, m2n[i][2], m2n[i][1]))

\* players or ['x', 'o']
PlayersOrDefault(players) ==
    IF players.t = "none" \/ players.v = <<>> THEN <<<<"x">>, <<"o">>>> ELSE players.v

\* _set_players: the outcome and the two dicts it assigns.
SetPlayers(players) ==
    LET ps == PlayersOrDefault(players)
    IN IF \E i \in 1..Len(ps) : Len(ps[i]) > 1 \/ Strip(ps[i]) = <<>>
       THEN [out |-> PlayersError, m2n |-> <<>>, n2m |-> <<>>]
       ELSE LET m2n == EnumerateDict(ps, 1, <<>>)
            IN [out |-> OK, m2n |-> m2n, n2m |-> InvertDict(m2n, 1, <<>>)]

(* --------------------------- winning lines ----------------------------- *)

\* list(itertools.product(range(size), range(size)))
Prod(sz) == [i \in 1..(sz * sz) |-> <<(i - 1) \div sz, (i - 1) % sz>>]

\* The h_lines loop: n = 0, size, 2*size, ... until the slice is short.
RECURSIVE HLines(_, _, _)
HLines(prod, sz, n) ==
    LET line == Slice(prod, n, n + sz)
    IN IF Len(line) = sz THEN <<line>> \o HLines(prod, sz, n + sz) ELSE <<>>

\* The inner while of the v_lines loop.
RECURSIVE VLine(_, _, _)
VLine(prod, sz, n) ==
    IF n < Len(prod) THEN <<prod[n + 1]>> \o VLine(prod, sz, n + sz) ELSE <<>>

VLines(prod, sz) == [n \in 1..Len(Slice(prod, 0, sz)) |-> VLine(prod, sz, n - 1)]

DiagonalRight(sz) == [n \in 1..sz |-> <<n - 1, n - 1>>]

\* The walk steps up without stepping right.
DiagonalLeftStepUpOnly(p) == <<p[1] - 1, p[2]>>

\* One step of the diagonal_left walk.
DiagonalLeftStep(p) == <<p[1] - 1, p[2] + 1>>

\* The diagonal_left while loop; <<>> when it has not ended within `fuel` steps.
RECURSIVE DiagonalLeft(_, _, _)
DiagonalLeft(line, sz, fuel) ==
    LET p == line[Len(line)]
    IN IF p = <<0, sz - 1>> THEN line
       ELSE IF fuel = 0 THEN <<>>
       ELSE DiagonalLeft(Append(line, DiagonalLeftStep(p)), sz, fuel - 1)

GetWinningLines(sz) ==
    LET prod == Prod(sz)
    IN HLines(prod, sz, 0) \o VLines(prod, sz)
         \o <<DiagonalRight(sz)>> \o <<DiagonalLeft(<<<<sz - 1, 0>>>>, sz, LoopFuel)>>

(* ---------------------------- construction ----------------------------- *)

EmptyBoard(sz) == [r \in 1..sz |-> [c \in 1..sz |-> EMPTY]]

\* __init__: the outcome and, on success, the fields of the new board.
InitEffect(sz, players) ==
    LET none == [size |-> 0, m2n |-> <<>>, n2m |-> <<>>, empty |-> <<>>,
                 board |-> <<>>, lines |-> <<>>]
    IN IF sz < 2 THEN [out |-> SizeError] @@ none
       ELSE LET p == SetPlayers(players)
            IN IF p.out # OK THEN [out |-> p.out] @@ none
               ELSE [out |-> OK, size |-> sz, m2n |-> p.m2n, n2m |-> p.n2m,
                     empty |-> EmptyBoard(sz), board |-> EmptyBoard(sz),
                     lines |-> GetWinningLines(sz)]

(* --------------------------- mark resolution --------------------------- *)

\* _marker_from_player
MarkerFromPlayer(m2n, n2m, arg) ==
    IF arg.t \notin {"int", "str"} THEN [out |-> MarkerTypeError, marker |-> <<>>]
    ELSE IF arg.t = "int" /\ ~DictHas(n2m, arg.v) THEN [out |-> KeyError, marker |-> <<>>]
    ELSE LET marker == IF arg.t = "int" THEN DictGet(n2m, arg.v) ELSE arg.v
         IN IF ~DictHas(m2n, marker) THEN [out |-> InvalidMarkerError, marker |-> <<>>]
            ELSE [out |-> OK, marker |-> marker]

(* ------------------------------ placing -------------------------------- *)

\* self.board[row][col] can be read (row, col >= 0).
InGrid(b, row, col) == row + 1 <= Len(b) /\ col + 1 <= Len(b[row + 1])

\* place_at without the check of the existing mark.
PlaceEffectOverwriting(b, m2n, n2m, row, col, arg) ==
    LET m == MarkerFromPlayer(m2n, n2m, arg)
    IN IF m.out # OK THEN [out |-> m.out, board |-> b]
       ELSE IF ~InGrid(b, row, col) THEN [out |-> IndexError, board |-> b]
       ELSE [out |-> OK, board |-> [b EXCEPT ![row + 1][col + 1] = m.marker]]

\* place_at: the outcome and the grid afterwards.
PlaceEffect(b, m2n, n2m, row, col, arg) ==
    LET m == MarkerFromPlayer(m2n, n2m, arg)
    IN IF m.out # OK THEN [out |-> m.out, board |-> b]
       ELSE IF ~InGrid(b, row, col) THEN [out |-> IndexError, board |-> b]
       ELSE IF b[row + 1][col + 1] # EMPTY THEN [out |-> OccupiedError, board |-> b]
       ELSE [out |-> OK, board |-> [b EXCEPT ![row + 1][col + 1] = m.marker]]

(* ------------------------------ strings -------------------------------- *)

Digits == <<"0", "1", "2", "3", "4", "5", "6", "7", "8", "9">>
IsDigit(c) == \E i \in 1..10 : Digits[i] = c
DigitVal(c) == (CHOOSE i \in 1..10 : Digits[i] = c) - 1

\* str(n) for n >= 0.
RECURSIVE Str(_)
Str(n) == IF n < 10 THEN <<Digits[n + 1]>> ELSE Str(n \div 10) \o <<Digits[(n % 10) + 1]>>

\* The value of a run of digits.
RECURSIVE DigitsVal(_)
DigitsVal(s) ==
    IF s = <<>> THEN 0 ELSE 10 * DigitsVal(SubSeq(s, 1, Len(s) - 1)) + DigitVal(s[Len(s)])

\* int(s): surrounding whitespace and one sign are accepted, then digits only
\* (the model's strings hold no underscore).
ParseInt(s) ==
    LET t == Strip(s)
        signed == t # <<>> /\ Head(t) \in {"+", "-"}
        body == IF signed THEN Tail(t) ELSE t
    IN IF body = <<>> \/ \E i \in 1..Len(body) : ~IsDigit(body[i])
       THEN [out |-> IntLiteralError, val |-> 0]
       ELSE [out |-> OK,
             val |-> IF signed /\ Head(t) = "-" THEN 0 - DigitsVal(body) ELSE DigitsVal(body)]

\* sep.join(parts)
RECURSIVE Join(_, _)
Join(sep, parts) ==
    IF parts = <<>> THEN <<>>
    ELSE IF Len(parts) = 1 THEN parts[1]
    ELSE parts[1] \o sep \o Join(sep, Tail(parts))

\* s.split(c) for a one-character separator c.
RECURSIVE Split(_, _)
Split(s, c) ==
    IF \E i \in 1..Len(s) : s[i] = c
    THEN LET i == CHOOSE i \in 1..Len(s) : s[i] = c /\ \A j \in 1..(i - 1) : s[j] # c
         IN <<SubSeq(s, 1, i - 1)>> \o Split(SubSeq(s, i + 1, Len(s)), c)
    ELSE <<s>>

\* The first position from j on that holds "]" or a newline; 0 when none does.
RECURSIVE FirstClose(_, _)
FirstClose(s, j) ==
    IF j > Len(s) THEN 0
    ELSE IF s[j] \in {"]", "\n"} THEN j
    ELSE FirstClose(s, j + 1)

\* re.findall(r"X\[(.*?)\]", s) from position i on, X one character: the
\* shortest text between "X[" and the next "]", '.' matching no newline.
RECURSIVE FindAllBracket(_, _, _)
FindAllBracket(s, x, i) ==
    IF i + 1 > Len(s) THEN <<>>
    ELSE IF s[i] = x /\ s[i + 1] = "["
    THEN LET j == FirstClose(s, i + 2)
         IN IF j # 0 /\ s[j] = "]"
            THEN <<SubSeq(s, i + 2, j - 1)>> \o FindAllBracket(s, x, j + 1)
            ELSE FindAllBracket(s, x, i + 1)
    ELSE FindAllBracket(s, x, i + 1)

(* --------------------------- board strings ----------------------------- *)

\* '0' if mark == ' ' else str(self.mark_to_num[mark])
CellCode(m2n, mark) ==
    IF mark = EMPTY THEN [out |-> OK, code |-> <<"0">>]
    ELSE IF ~DictHas(m2n, mark) THEN [out |-> KeyError, code |-> <<>>]
    ELSE [out |-> OK, code |-> Str(DictGet(m2n, mark))]

\* 'R[' + ','.join(codes of the row) + ']'
RowString(m2n, row) ==
    <<"R", "[">> \o Join(<<",">>, [c \in 1..Len(row) |-> CellCode(m2n, row[c]).code]) \o <<"]">>

RECURSIVE RowStrings(_, _)
RowStrings(m2n, b) ==
    IF b = <<>> THEN <<>> ELSE RowString(m2n, Head(b)) \o RowStrings(m2n, Tail(b))

\* get_board_string
GetBoardString(b, m2n) ==
    IF \E r \in 1..Len(b) : \E c \in 1..Len(b[r]) : CellCode(m2n, b[r][c]).out # OK
    THEN [out |-> KeyError, ret |-> <<>>]
    ELSE [out |-> OK,
          ret |-> <<"P", "[">> \o Join(<<",">>, DictKeys(m2n)) \o <<"]", "=">>
                    \o RowStrings(m2n, b)]

\* ' ' if n == '0' else self.num_to_mark[int(n)]
CellMark(n2m, n) ==
    IF n = <<"0">> THEN [out |-> OK, mark |-> EMPTY]
    ELSE LET v == ParseInt(n)
         IN IF v.out # OK THEN [out |-> v.out, mark |-> <<>>]
            ELSE IF ~DictHas(n2m, v.val) THEN [out |-> KeyError, mark |-> <<>>]
            ELSE [out |-> OK, mark |-> DictGet(n2m, v.val)]

\* The inner comprehension of load_board_string: the cells ns of one row,
\* converted left to right, after the marks in acc.
RECURSIVE LoadRow(_, _, _)
LoadRow(n2m, ns, acc) ==
    IF ns = <<>> THEN [out |-> OK, row |-> acc]
    ELSE LET m == CellMark(n2m, Head(ns))
         IN IF m.out # OK THEN [out |-> m.out, row |-> <<>>]
            ELSE LoadRow(n2m, Tail(ns), Append(acc, m.mark))

\* The outer comprehension: the rows rs, converted top to bottom, after the
\* rows in acc.
RECURSIVE LoadRows(_, _, _)
LoadRows(n2m, rs, acc) ==
    IF rs = <<>> THEN [out |-> OK, board |-> acc]
    ELSE LET row == LoadRow(n2m, Split(Head(rs), ","), <<>>)
         IN IF row.out # OK THEN [out |-> row.out, board |-> <<>>]
            ELSE LoadRows(n2m, Tail(rs), Append(acc, row.row))

\* load_board_string once _set_players has returned p.
LoadGrid(b, m2n, n2m, s, p) ==
    IF p.out # OK THEN [out |-> p.out, m2n |-> m2n, n2m |-> n2m, board |-> b]
    ELSE LET g == LoadRows(p.n2m, FindAllBracket(s, "R", 1), <<>>)
         IN [out |-> g.out, m2n |-> p.m2n, n2m |-> p.n2m,
             board |-> IF g.out = OK THEN g.board ELSE b]

\* load_board_string: the outcome, and the dicts and the grid afterwards.
LoadEffect(b, m2n, n2m, s) ==
    LET ps == FindAllBracket(s, "P", 1)
    IN IF ps = <<>> THEN [out |-> IndexError, m2n |-> m2n, n2m |-> n2m, board |-> b]
       ELSE LoadGrid(b, m2n, n2m, s, SetPlayers(ListV(Split(ps[1], ","))))

(* ------------------------------ queries -------------------------------- *)

BoolV(b) == [t |-> "bool", v |-> b]

\* not x, for x None, a str or an int.
Falsy(x) == x.t = "none" \/ (x.t = "str" /\ x.v = <<>>) \/ (x.t = "int" /\ x.v = 0)

\* The loop of check_for_win over the points of one line, from point i on.
RECURSIVE CheckLine(_, _, _, _)
CheckLine(b, line, i, last_mark) ==
    IF i > Len(line) THEN [out |-> OK, is_winner |-> TRUE, last_mark |-> last_mark]
    ELSE IF ~InGrid(b, line[i][1], line[i][2])
    THEN [out |-> IndexError, is_winner |-> FALSE, last_mark |-> last_mark]
    ELSE LET mark == b[line[i][1] + 1][line[i][2] + 1]
         IN IF Falsy(last_mark) THEN CheckLine(b, line, i + 1, StrV(mark))
            ELSE IF last_mark.v # mark
            THEN [out |-> OK, is_winner |-> FALSE, last_mark |-> last_mark]
            ELSE CheckLine(b, line, i + 1, last_mark)

\* is_winner alone: a line of empty cells counts.
LineIsWonIgnoringEmpty(r) == r.is_winner

\* is_winner and (last_mark != ' ')
LineIsWon(r) == r.is_winner /\ r.last_mark # StrV(EMPTY)

\* check_for_win: the first line of `lines`, from line n on, that is won.
RECURSIVE CheckForWinFrom(_, _, _)
CheckForWinFrom(b, lines, n) ==
    IF n > Len(lines) THEN [out |-> OK, ret |-> BoolV(FALSE)]
    ELSE LET r == CheckLine(b, lines[n], 1, None)
         IN IF r.out # OK THEN [out |-> r.out, ret |-> None]
            ELSE IF LineIsWon(r) THEN [out |-> OK, ret |-> ListV(lines[n])]
            ELSE CheckForWinFrom(b, lines, n + 1)

CheckForWin(b, lines) == CheckForWinFrom(b, lines, 1)

\* find_occupied(marker_or_player); None stands for the omitted argument.
FindOccupied(b, sz, m2n, n2m, arg) ==
    LET m == IF ~Falsy(arg) THEN MarkerFromPlayer(m2n, n2m, arg)
             ELSE [out |-> OK, marker |-> <<>>]
        marker == IF ~Falsy(arg) THEN StrV(m.marker) ELSE None
        cells == Prod(sz)
        Holds(p) == IF ~Falsy(marker) THEN b[p[1] + 1][p[2] + 1] = marker.v
                    ELSE b[p[1] + 1][p[2] + 1] # EMPTY
    IN IF m.out # OK THEN [out |-> m.out, ret |-> <<>>]
       ELSE IF \E i \in 1..Len(cells) : ~InGrid(b, cells[i][1], cells[i][2])
       THEN [out |-> IndexError, ret |-> <<>>]
       ELSE [out |-> OK, ret |-> SelectSeq(cells, Holds)]

\* string.ascii_lowercase
AsciiLowercase ==
    <<"a", "b", "c", "d", "e", "f", "g", "h", "i", "j", "k", "l", "m",
      "n", "o", "p", "q", "r", "s", "t", "u", "v", "w", "x", "y", "z">>
IsLower(c) == \E i \in 1..26 : AsciiLowercase[i] = c
\* ascii_lowercase.index(c)
LowerIndex(c) == (CHOOSE i \in 1..26 : AsciiLowercase[i] = c) - 1

\* re.findall(r"([a-z])", s)
FindLetters(s) == SelectSeq(s, IsLower)

\* re.findall(r"(\d+)", s) from position i on: the maximal runs of digits.
RECURSIVE FindNumbers(_, _)
FindNumbers(s, i) ==
    IF i > Len(s) THEN <<>>
    ELSE IF ~IsDigit(s[i]) THEN FindNumbers(s, i + 1)
    ELSE LET j == CHOOSE j \in i..Len(s) :
                     /\ \A k \in i..j : IsDigit(s[k])
                     /\ (j = Len(s) \/ ~IsDigit(s[j + 1]))
         IN <<SubSeq(s, i, j)>> \o FindNumbers(s, j + 1)

\* str_to_point
StrToPoint(s) ==
    LET letter_reg == FindLetters(s)
        num_reg == FindNumbers(s, 1)
    IN IF Len(letter_reg \o num_reg) # 2 THEN [out |-> PointError, ret |-> <<>>]
       ELSE IF letter_reg = <<>> \/ num_reg = <<>> THEN [out |-> IndexError, ret |-> <<>>]
       ELSE [out |-> OK, ret |-> <<LowerIndex(letter_reg[1]), ParseInt(num_reg[1]).val>>]

(* ------------------------------ inputs --------------------------------- *)

Sizes == 0..MaxSize

PlayerLists ==
    { None, ListV(<<>>), ListV(<<<<"x">>, <<"o">>>>), ListV(<<<<"x">>, <<"x">>>>),
      ListV(<<<<",">>>>), ListV(<<<<" ">>, <<"o">>>>), ListV(<<<<>>, <<"o">>>>),
      ListV(<<<<"x", "y">>, <<"o">>>>) }

\* Arguments given to place_at.
PlaceArgs == { StrV(<<"x">>), StrV(<<"z">>), IntV(0), IntV(1), IntV(2), None }

\* Arguments given to _marker_from_player and find_occupied.
PlayerArgs ==
    PlaceArgs \cup { StrV(<<"o">>), StrV(<<",">>), StrV(<<>>), IntV(3), IntV(-1) }

\* Board strings: 'P[' marks ']' and 'R[' cell codes ']'.
PSeg(marks) == <<"P", "[">> \o Join(<<",">>, marks) \o <<"]">>
RSeg(cells) == <<"R", "[">> \o Join(<<",">>, cells) \o <<"]">>
Pxo == PSeg(<<<<"x">>, <<"o">>>>)

LoadInputs ==
    { Pxo \o RSeg(<<<<"1">>, <<"1">>>>) \o RSeg(<<<<"2">>, <<"2">>>>),
      Pxo \o RSeg(<<<<"2">>, <<"2">>, <<"2">>>>) \o RSeg(<<<<"1">>, <<"1">>, <<"1">>>>)
          \o RSeg(<<<<"0">>, <<"0">>, <<"0">>>>),
      Pxo \o RSeg(<<<<"0">>>>),
      Pxo \o RSeg(<<<<" ", "1">>, <<"0", "1">>>>) \o RSeg(<<<<"0">>, <<"0">>>>),
      Pxo \o RSeg(<<<<"a">>, <<"0">>>>) \o RSeg(<<<<"0">>, <<"0">>>>),
      Pxo \o <<"R", "[", "1", ",", "2">>,
      RSeg(<<<<"0">>, <<"0">>>>) \o RSeg(<<<<"0">>, <<"0">>>>),
      <<"P", "[", "x", ",", "o">>,
      PSeg(<<<<"o">>>>) \o RSeg(<<<<"9">>, <<"0">>>>) \o RSeg(<<<<"0">>, <<"0">>>>),
      PSeg(<<<<"x", "y">>>>) \o RSeg(<<<<"0">>, <<"0">>>>) \o RSeg(<<<<"0">>, <<"0">>>>) }

\* Texts given to str_to_point: every string of at most MaxPointLen of these
\* characters, and the longer examples of the docstring.
PointChars == {"a", "b", "A", "3", "4", " ", ","}

PointStrings ==
    UNION { [1..n -> PointChars] : n \in 0..MaxPointLen }
      \cup { <<"a", ",", " ", "3">>, <<"3", ",", " ", "a">>, <<"z", " ", " ", "1", "0">> }

(* ------------------------------ actions -------------------------------- *)

\* What the argument of a call was in the state it was made in: the cell it
\* names, and whether its mark or player is in the registry.
CellState(b, row, col) ==
    IF ~InGrid(b, row, col) THEN "outside"
    ELSE IF b[row + 1][col + 1] = EMPTY THEN "empty" ELSE "occupied"

Registered(m2n, arg) ==
    \/ arg.t = "str" /\ \E i \in 1..Len(m2n) : m2n[i][1] = arg.v
    \/ arg.t = "int" /\ \E i \in 1..Len(m2n) : m2n[i][2] = arg.v

\* The local variables of the function that drives the board (play_game,
\* random_board); none when the methods are called directly.
NoLocals == [fn |-> "none"]

\* The record of the last call: the method, and how it ended.
Call(op, out) == [op |-> op, out |-> out, cell |-> "none", registered |-> FALSE]

Init ==
    /\ phase = "new"
    /\ size = 0
    /\ mark_to_num = <<>>
    /\ num_to_mark = <<>>
    /\ empty_board = <<>>
    /\ board = <<>>
    /\ winning_lines = <<>>
    /\ last = Call("none", OK)
    /\ nops = 0
    /\ locals = NoLocals

\* GameBoard(size, players)
Construct(sz, players) ==
    /\ phase = "new"
    /\ LET r == InitEffect(sz, players)
       IN /\ last' = [op |-> "__init__", out |-> r.out, cell |-> "none",
                      registered |-> FALSE, sz |-> sz, players |-> players]
          /\ phase' = IF r.out = OK THEN "board" ELSE "failed"
          /\ size' = r.size
          /\ mark_to_num' = r.m2n
          /\ num_to_mark' = r.n2m
          /\ empty_board' = r.empty
          /\ board' = r.board
          /\ winning_lines' = r.lines
    /\ UNCHANGED <<nops, locals>>

\* board.place_at(row, col, arg)
PlaceAt(row, col, arg) ==
    /\ phase = "board"
    /\ nops < MaxOps
    /\ \E r \in {PlaceEffect(board, mark_to_num, num_to_mark, row, col, arg)} :
          /\ last' = [op |-> "place_at", out |-> r.out,
                      cell |-> CellState(board, row, col),
                      registered |-> Registered(mark_to_num, arg)]
          /\ board' = r.board
    /\ nops' = nops + 1
    /\ UNCHANGED <<phase, size, mark_to_num, num_to_mark, empty_board, winning_lines,
                   locals>>

\* reset written as a second construction, self.__init__(self.size): the
\* grid is cleared and the players are registered anew from the default.
ResetByReconstruction ==
    /\ phase = "board"
    /\ nops < MaxOps
    /\ \E r \in {InitEffect(size, None)} :
          /\ board' = r.board
          /\ mark_to_num' = r.m2n
          /\ num_to_mark' = r.n2m
    /\ last' = [Call("reset", OK) EXCEPT
                    !.cell = IF board = empty_board THEN "empty" ELSE "occupied"]
    /\ nops' = nops + 1
    /\ UNCHANGED <<phase, size, empty_board, winning_lines, locals>>

\* board.reset()
Reset ==
    /\ phase = "board"
    /\ nops < MaxOps
    /\ board' = empty_board
    /\ last' = [Call("reset", OK) EXCEPT
                    !.cell = IF board = empty_board THEN "empty" ELSE "occupied"]
    /\ nops' = nops + 1
    /\ UNCHANGED <<phase, size, mark_to_num, num_to_mark, empty_board, winning_lines,
                   locals>>

\* board.load_board_string(s)
LoadBoardString(s) ==
    /\ phase = "board"
    /\ nops < MaxOps
    /\ \E r \in {LoadEffect(board, mark_to_num, num_to_mark, s)} :
          /\ last' = Call("load_board_string", r.out)
          /\ mark_to_num' = r.m2n
          /\ num_to_mark' = r.n2m
          /\ board' = r.board
    /\ nops' = nops + 1
    /\ UNCHANGED <<phase, size, empty_board, winning_lines, locals>>

\* board.load_board_string(board.get_board_string())
LoadOwnString ==
    \E g \in {GetBoardString(board, mark_to_num)} :
        g.out = OK /\ LoadBoardString(g.ret)

Next ==
    \/ \E sz \in Sizes, players \in PlayerLists : Construct(sz, players)
    \/ \E row \in 0..(size - 1), col \in 0..(size - 1), arg \in PlaceArgs :
          PlaceAt(row, col, arg)
    \/ Reset
    \/ \E s \in LoadInputs : LoadBoardString(s)
    \/ LoadOwnString

\* The board without load_board_string: construction, placements and resets.
NextPlay ==
    \/ \E sz \in Sizes, players \in PlayerLists : Construct(sz, players)
    \/ \E row \in 0..(size - 1), col \in 0..(size - 1), arg \in PlaceArgs :
          PlaceAt(row, col, arg)
    \/ Reset

\* GameBoard(): the board str_to_point is called on.
InitPoint ==
    LET r == InitEffect(3, None)
    IN /\ phase = "board"
       /\ size = r.size
       /\ mark_to_num = r.m2n
       /\ num_to_mark = r.n2m
       /\ empty_board = r.empty
       /\ board = r.board
       /\ winning_lines = r.lines
       /\ last = Call("__init__", r.out)
       /\ nops = 0
       /\ locals = NoLocals

\* board.str_to_point(text)
StrToPointCall(text) ==
    /\ phase = "board"
    /\ LET r == StrToPoint(text)
       IN last' = [op |-> "str_to_point", out |-> r.out, text |-> text, ret |-> r.ret]
    /\ UNCHANGED <<phase, size, mark_to_num, num_to_mark, empty_board, board,
                   winning_lines, nops, locals>>

NextPoint == \E text \in PointStrings : StrToPointCall(text)

Spec == Init /\ [][Next]_vars

SpecPoint == InitPoint /\ [][NextPoint]_vars

SpecPlay == Init /\ [][NextPlay]_vars

(* ------------------------------ play_game ------------------------------ *)

\* play_game(game_rounds, **kwargs) is called with 0..MaxRounds rounds.
MaxRounds == 2

\* The keyword arguments of play_game, handed on to GameBoard.
GameKwargs ==
    { [size |-> 2, players |-> None],
      [size |-> 3, players |-> None],
      [size |-> 2, players |-> ListV(<<<<"x">>, <<"o">>, <<"y">>, <<"z">>>>)],
      [size |-> 1, players |-> None] }

\* What the players type at 'Place where? ': the cells a0..d3, one of them
\* with the number first, and texts that are no coordinates.
GameTexts ==
    { <<AsciiLowercase[r + 1], Digits[c + 1]>> : r \in 0..3, c \in 0..3 }
      \cup { <<>>, <<"a", "b">>, <<"1", "a">> }

\* board.str_to_point(text) of each of them; it reads nothing of the board.
ParsedTexts == [text \in GameTexts |-> StrToPoint(text)]

Draw == <<"d", "r", "a", "w">>

\* The local variables of play_game; player is the position of the iterator
\* itertools.cycle(board.mark_to_num).
GameLocals ==
    [fn |-> "play_game", pc |-> "call", game_rounds |-> 0,
     kwargs |-> [size |-> 3, players |-> None], game_results |-> <<>>,
     game_round |-> 0, winner |-> <<>>, game_turns |-> 0, player |-> 0]

\* The mark the iterator of the for-loop is at.
Player == DictKeys(mark_to_num)[locals.player]

\* The iterator stays where it is.
CycleStay(i, n) == i

\* next() of itertools.cycle over n keys, from position i.
CycleNext(i, n) == (i % n) + 1

\* bool(x) of what check_for_win returns.
Truthy(x) == (x.t = "list" /\ x.v # <<>>) \/ (x.t = "bool" /\ x.v)

InitGame ==
    /\ phase = "new"
    /\ size = 0
    /\ mark_to_num = <<>>
    /\ num_to_mark = <<>>
    /\ empty_board = <<>>
    /\ board = <<>>
    /\ winning_lines = <<>>
    /\ last = Call("none", OK)
    /\ nops = 0
    /\ locals = GameLocals

\* play_game(game_rounds, **kwargs): game_results = {}
PlayGame(game_rounds, kwargs) ==
    /\ locals.pc = "call"
    /\ locals' = [locals EXCEPT !.pc = "for_round", !.game_rounds = game_rounds,
                                !.kwargs = kwargs]
    /\ UNCHANGED <<phase, size, mark_to_num, num_to_mark, empty_board, board,
                   winning_lines, last, nops>>

\* for game_round in range(1, game_rounds + 1): the next round begins with a
\* new board, or the results are returned.
ForRound ==
    /\ locals.pc = "for_round"
    /\ IF locals.game_round + 1 > locals.game_rounds
       THEN /\ locals' = [locals EXCEPT !.pc = "returned"]
            /\ UNCHANGED <<phase, size, mark_to_num, num_to_mark, empty_board,
                           board, winning_lines, last>>
       ELSE \E r \in {InitEffect(locals.kwargs.size, locals.kwargs.players)} :
              /\ last' = Call("__init__", r.out)
              /\ phase' = IF r.out = OK THEN "board" ELSE "failed"
              /\ size' = r.size
              /\ mark_to_num' = r.m2n
              /\ num_to_mark' = r.n2m
              /\ empty_board' = r.empty
              /\ board' = r.board
              /\ winning_lines' = r.lines
              /\ locals' = IF r.out # OK
                           THEN [locals EXCEPT !.pc = "raised",
                                               !.game_round = locals.game_round + 1]
                           ELSE [locals EXCEPT !.pc = "prompt",
                                               !.game_round = locals.game_round + 1,
                                               !.winner = Draw,
                                               !.game_turns = 1,
                                               !.player = 1]
    /\ UNCHANGED nops

\* board.place_at(*board.str_to_point(input('Place where? ')), player) in
\* while True: try ... break / except Exception ... continue
Prompt(text) ==
    /\ locals.pc = "prompt"
    /\ \E p \in {ParsedTexts[text]} :
          IF p.out # OK
          THEN /\ last' = Call("str_to_point", p.out)
               /\ UNCHANGED <<board, locals>>
          ELSE \E r \in {PlaceEffect(board, mark_to_num, num_to_mark,
                                     p.ret[1], p.ret[2], StrV(Player))} :
                 /\ last' = Call("place_at", r.out)
                 /\ board' = r.board
                 /\ locals' = IF r.out = OK THEN [locals EXCEPT !.pc = "check"]
                              ELSE locals
    /\ UNCHANGED <<phase, size, mark_to_num, num_to_mark, empty_board,
                   winning_lines, nops>>

\* An input that is accepted: the placement succeeds and the loop is left.
Placed(text) == Prompt(text) /\ locals'.pc = "check"

\* if board.check_for_win(): winner = player; break / game_turns += 1
CheckWin ==
    /\ locals.pc = "check"
    /\ \E w \in {CheckForWin(board, winning_lines)} :
          /\ last' = Call("check_for_win", w.out) @@ [ret |-> w.ret]
          /\ locals' =
               IF w.out # OK THEN [locals EXCEPT !.pc = "raised"]
               ELSE IF Truthy(w.ret)
               THEN [locals EXCEPT !.pc = "end_round", !.winner = Player]
               ELSE [locals EXCEPT !.pc = "prompt",
                                   !.game_turns = locals.game_turns + 1,
                                   !.player = CycleNext(locals.player, Len(mark_to_num))]
    /\ UNCHANGED <<phase, size, mark_to_num, num_to_mark, empty_board, board,
                   winning_lines, nops>>

\* game_results[game_round] = winner
EndRound ==
    /\ locals.pc = "end_round"
    /\ locals' = [locals EXCEPT
                    !.pc = "for_round",
                    !.game_results = DictSet(locals.game_results,
                                             locals.game_round, locals.winner)]
    /\ UNCHANGED <<phase, size, mark_to_num, num_to_mark, empty_board, board,
                   winning_lines, last, nops>>

NextGame ==
    \/ \E game_rounds \in 0..MaxRounds, kwargs \in GameKwargs :
          PlayGame(game_rounds, kwargs)
    \/ ForRound
    \/ \E text \in GameTexts : Prompt(text)
    \/ CheckWin
    \/ EndRound

\* The players keep typing, and while a legal placement exists one of them is
\* typed in the end.
SpecGame ==
    /\ InitGame
    /\ [][NextGame]_vars
    /\ WF_vars(NextGame)
    /\ WF_vars(\E text \in GameTexts : Placed(text))

(* ----------------------------- random_board ---------------------------- *)

\* GameBoard.random_board(size, players) is called with sizes 0..MaxRandomSize.
MaxRandomSize == 2

RandomPlayerLists == { None, ListV(<<<<"x">>>>), ListV(<<<<"x", "y">>>>) }

\* The local variables of random_board: count is random.randint(0, size*size),
\* done the iterations of the for-loop that have ended.
RandomLocals == [fn |-> "random_board", pc |-> "call", count |-> 0, done |-> 0]

\* The exception is a ValueError.
IsValueError(out) ==
    out \in {SizeError, PlayersError, InvalidMarkerError, OccupiedError,
             PointError, IntLiteralError}

\* A count that may exceed the number of cells by one.
RandomCountsPastFull(sz) == 0..(sz * sz + 1)

\* random.randint(0, size*size)
RandomCounts(sz) == 0..(sz * sz)

InitRandom ==
    /\ phase = "new"
    /\ size = 0
    /\ mark_to_num = <<>>
    /\ num_to_mark = <<>>
    /\ empty_board = <<>>
    /\ board = <<>>
    /\ winning_lines = <<>>
    /\ last = Call("none", OK)
    /\ nops = 0
    /\ locals = RandomLocals

\* board = cls(*args, **kwargs); range(random.randint(0, size*size))
RandomBoard(sz, players) ==
    /\ locals.pc = "call"
    /\ \E r \in {InitEffect(sz, players)} :
          /\ last' = Call("__init__", r.out)
          /\ phase' = IF r.out = OK THEN "board" ELSE "failed"
          /\ size' = r.size
          /\ mark_to_num' = r.m2n
          /\ num_to_mark' = r.n2m
          /\ empty_board' = r.empty
          /\ board' = r.board
          /\ winning_lines' = r.lines
          /\ IF r.out # OK THEN locals' = [locals EXCEPT !.pc = "raised"]
             ELSE \E count \in RandomCounts(r.size) :
                     locals' = [locals EXCEPT !.pc = "loop", !.count = count]
    /\ UNCHANGED nops

\* One pass of while True: place_at at a random cell with a random mark;
\* break on success, continue on ValueError.
RandomPlace(row, col, mark) ==
    /\ locals.pc = "loop"
    /\ locals.done < locals.count
    /\ \E r \in {PlaceEffect(board, mark_to_num, num_to_mark, row, col, StrV(mark))} :
          /\ last' = Call("place_at", r.out)
          /\ board' = r.board
          /\ locals' = IF r.out = OK THEN [locals EXCEPT !.done = locals.done + 1]
                       ELSE IF IsValueError(r.out) THEN locals
                       ELSE [locals EXCEPT !.pc = "raised"]
    /\ UNCHANGED <<phase, size, mark_to_num, num_to_mark, empty_board,
                   winning_lines, nops>>

\* A pass whose placement succeeds.
RandomPlaced(row, col, mark) ==
    RandomPlace(row, col, mark) /\ locals'.done = locals.done + 1

\* The for-loop is exhausted: return board
RandomReturn ==
    /\ locals.pc = "loop"
    /\ locals.done = locals.count
    /\ locals' = [locals EXCEPT !.pc = "returned"]
    /\ UNCHANGED <<phase, size, mark_to_num, num_to_mark, empty_board, board,
                   winning_lines, last, nops>>

NextRandom ==
    \/ \E sz \in 0..MaxRandomSize, players \in RandomPlayerLists : RandomBoard(sz, players)
    \/ \E row \in 0..(size - 1), col \in 0..(size - 1) :
          \E i \in 1..Len(mark_to_num) : RandomPlace(row, col, DictKeys(mark_to_num)[i])
    \/ RandomReturn

\* The random choices are fair: a pass that can succeed is drawn in the end.
SpecRandom ==
    /\ InitRandom
    /\ [][NextRandom]_vars
    /\ WF_vars(RandomReturn)
    /\ WF_vars(\E row \in 0..(size - 1), col \in 0..(size - 1) :
                  \E i \in 1..Len(mark_to_num) :
                      RandomPlaced(row, col, DictKeys(mark_to_num)[i]))

(* ----------------------- what the claims speak of ---------------------- *)

\* The grid is size x size.
IsSquare(b, sz) == Len(b) = sz /\ \A r \in 1..Len(b) : Len(b[r]) = sz

\* The mark at a 0-based point of a square grid.
At(b, p) == b[p[1] + 1][p[2] + 1]

\* The lines in the stated order: rows top to bottom, columns left to right,
\* the main diagonal, the anti-diagonal from (size-1, 0) to (0, size-1).
LineOrder(sz) ==
    [r \in 1..sz |-> [c \in 1..sz |-> <<r - 1, c - 1>>]]
      \o [c \in 1..sz |-> [r \in 1..sz |-> <<r - 1, c - 1>>]]
      \o << [i \in 1..sz |-> <<i - 1, i - 1>>] >>
      \o << [i \in 1..sz |-> <<sz - i, i - 1>>] >>

\* Every cell of the line holds the same non-empty mark.
Uniform(b, line) ==
    At(b, line[1]) # EMPTY /\ \A i \in 1..Len(line) : At(b, line[i]) = At(b, line[1])

\* The marks of the registry.
Marks(m2n) == {m2n[i][1] : i \in 1..Len(m2n)}

(* ------------------------------- claims -------------------------------- *)

\* C1 (as stated): place_at on an in-range non-empty cell signals the
\* occupied-cell error for every mark_or_player argument, and leaves the grid
\* and the registry as they were.
C1_OccupiedForEveryArgument ==
    [][(last'.op = "place_at" /\ last'.cell = "occupied")
         => /\ last'.out = OccupiedError
            /\ board' = board
            /\ mark_to_num' = mark_to_num
            /\ num_to_mark' = num_to_mark]_vars

\* C1 (amended): place_at on an in-range non-empty cell leaves the grid and the
\* registry as they were for every argument, and signals the occupied-cell
\* error for every argument that is a registered mark or a registered code.
C1_OccupiedForRegisteredArgument ==
    [][(last'.op = "place_at" /\ last'.cell = "occupied")
         => /\ last'.registered => last'.out = OccupiedError
            /\ last'.out # OK
            /\ board' = board
            /\ mark_to_num' = mark_to_num
            /\ num_to_mark' = num_to_mark]_vars

\* C1 witness: a placement of a registered mark on an occupied cell was refused.
C1_Witness ==
    /\ last.op = "place_at"
    /\ last.cell = "occupied"
    /\ last.registered
    /\ last.out = OccupiedError

\* C2: on every board reached by construction, placements and resets, loading
\* the board's own string succeeds and yields the same grid and the same
\* registry (same marks, same order, same codes).
C2_RoundTrip ==
    phase = "board" =>
        LET s == GetBoardString(board, mark_to_num)
            r == LoadEffect(board, mark_to_num, num_to_mark, s.ret)
        IN /\ s.out = OK
           /\ r.out = OK
           /\ r.board = board
           /\ r.m2n = mark_to_num
           /\ r.n2m = num_to_mark

\* C3: on every size x size grid check_for_win returns the earliest line, in
\* the order rows, columns, main diagonal, anti-diagonal, whose cells all hold
\* the same non-empty mark, and False exactly when there is no such line.
C3_EarliestWinningLine ==
    (phase = "board" /\ IsSquare(board, size)) =>
        LET lines == LineOrder(size)
            won == {n \in 1..Len(lines) : Uniform(board, lines[n])}
            r == CheckForWin(board, winning_lines)
        IN /\ r.out = OK
           /\ won = {} => r.ret = BoolV(FALSE)
           /\ won # {} =>
                r.ret = ListV(lines[CHOOSE n \in won : \A k \in won : n <= k])

\* C3 witness: two lines are complete at once, with different marks.
C3_Witness ==
    /\ phase = "board"
    /\ IsSquare(board, size)
    /\ \E i, j \in 1..(2 * size + 2) :
          /\ i < j
          /\ Uniform(board, LineOrder(size)[i])
          /\ Uniform(board, LineOrder(size)[j])
          /\ At(board, LineOrder(size)[i][1]) # At(board, LineOrder(size)[j][1])

\* C4: for every size >= 2 the winning-line list holds 2*size + 2 lines of
\* length size: the rows, then the columns, then the main diagonal, then the
\* anti-diagonal from (size-1, 0) to (0, size-1); the loops that build it end.
C4_WinningLines ==
    LET Good(sz, lines) ==
            /\ Len(lines) = 2 * sz + 2
            /\ \A n \in 1..Len(lines) : Len(lines[n]) = sz
            /\ lines = LineOrder(sz)
    IN /\ phase = "board" => Good(size, winning_lines)
       /\ phase = "new" => \A sz \in 2..MaxLineSize : Good(sz, GetWinningLines(sz))

\* C4 witness: a board of size 3 was constructed with its 8 lines.
C4_Witness == phase = "board" /\ size = 3 /\ Len(winning_lines) = 8

\* C5: construction (with marks of at most one character) fails, leaving no
\* board, whenever size < 2, or a mark is empty or whitespace, or two marks
\* are equal; otherwise it yields an all-empty size x size grid and a registry
\* mapping the marks in list order onto the codes 1..N.
C5_Construction ==
    (last.op = "__init__" /\ \A i \in 1..Len(PlayersOrDefault(last.players)) :
                                Len(PlayersOrDefault(last.players)[i]) <= 1) =>
        LET ps == PlayersOrDefault(last.players)
            bad == \/ last.sz < 2
                   \/ \E i \in 1..Len(ps) : Strip(ps[i]) = <<>>
                   \/ \E i, j \in 1..Len(ps) : i # j /\ ps[i] = ps[j]
        IN IF bad
           THEN last.out \in {SizeError, PlayersError} /\ phase = "failed"
           ELSE /\ last.out = OK
                /\ phase = "board"
                /\ board = [r \in 1..last.sz |-> [c \in 1..last.sz |-> EMPTY]]
                /\ mark_to_num = [i \in 1..Len(ps) |-> <<ps[i], i>>]
                /\ num_to_mark = [i \in 1..Len(ps) |-> <<i, ps[i]>>]

\* C6: mark resolution returns the registered mark for a registered mark
\* string and for an integer in 1..N, fails with the invalid-player error, the
\* same for both, for any other integer and any other string, and with the
\* type error for an argument that is neither.
C6_MarkResolution ==
    phase = "board" =>
        \A arg \in PlayerArgs :
            LET r == MarkerFromPlayer(mark_to_num, num_to_mark, arg)
                n == Len(mark_to_num)
            IN /\ (arg.t = "str" /\ arg.v \in Marks(mark_to_num))
                    => r = [out |-> OK, marker |-> arg.v]
               /\ (arg.t = "int" /\ arg.v \in 1..n)
                    => r = [out |-> OK, marker |-> mark_to_num[arg.v][1]]
               /\ (arg.t = "str" /\ arg.v \notin Marks(mark_to_num))
                    => r.out = InvalidMarkerError
               /\ (arg.t = "int" /\ arg.v \notin 1..n)
                    => r.out = InvalidMarkerError
               /\ arg.t \notin {"str", "int"} => r.out = MarkerTypeError

\* C7: a load_board_string that succeeds leaves a size x size grid (a string
\* whose row count or cell count differs from size is refused).
C7_LoadLeavesSquareGrid ==
    (last.op = "load_board_string" /\ last.out = OK) => IsSquare(board, size)

\* C8: after any sequence of calls, failed ones included, every cell of the
\* grid is empty or holds a mark of the current registry.
C8_CellsRegistered ==
    phase = "board" =>
        \A r \in 1..Len(board) : \A c \in 1..Len(board[r]) :
            board[r][c] = EMPTY \/ board[r][c] \in Marks(mark_to_num)

\* C9: str_to_point returns (position of the letter, value of the digits) for
\* a text with exactly one lowercase letter and exactly one run of digits, and
\* fails with the point-string error for every other text.
C9_ParsePoint ==
    last.op = "str_to_point" =>
        LET s == last.text
            letters == {i \in 1..Len(s) : IsLower(s[i])}
            runs == {i \in 1..Len(s) : IsDigit(s[i]) /\ (i = 1 \/ ~IsDigit(s[i - 1]))}
        IN IF Cardinality(letters) = 1 /\ Cardinality(runs) = 1
           THEN /\ last.out = OK
                /\ last.ret[1] = LowerIndex(s[CHOOSE i \in letters : TRUE])
                /\ last.ret[2] =
                     LET i == CHOOSE i \in runs : TRUE
                         j == CHOOSE j \in i..Len(s) :
                                 /\ \A k \in i..j : IsDigit(s[k])
                                 /\ (j = Len(s) \/ ~IsDigit(s[j + 1]))
                     IN DigitsVal(SubSeq(s, i, j))
           ELSE last.out = PointError

\* C10: on a size x size grid find_occupied without an argument returns the
\* non-empty cells in row-major order; with any argument, 0 and '' included,
\* it fails as mark resolution fails when the argument does not resolve, and
\* otherwise returns exactly the cells holding the resolved mark.
C10_FindOccupied ==
    (phase = "board" /\ IsSquare(board, size)) =>
        LET cells == Prod(size)
            NonEmpty(p) == At(board, p) # EMPTY
        IN /\ FindOccupied(board, size, mark_to_num, num_to_mark, None)
                = [out |-> OK, ret |-> SelectSeq(cells, NonEmpty)]
           /\ \A arg \in PlayerArgs \ {None} :
                LET m == MarkerFromPlayer(mark_to_num, num_to_mark, arg)
                    f == FindOccupied(board, size, mark_to_num, num_to_mark, arg)
                    HoldsMark(p) == At(board, p) = m.marker
                IN IF m.out # OK THEN f.out = m.out
                   ELSE f = [out |-> OK, ret |-> SelectSeq(cells, HoldsMark)]

\* C11: get_board_string returns exactly 'P[' + the marks in registration
\* order joined by commas + ']' followed at once by one block 'R[...]' per
\* row, top to bottom, each of size comma-separated codes, 0 for an empty
\* cell and the mark's code otherwise, and no other character.
C11_BoardStringFormat ==
    phase = "board" =>
        LET g == GetBoardString(board, mark_to_num)
            Code(r, c) == IF board[r][c] = EMPTY THEN <<"0">>
                          ELSE Str(DictGet(mark_to_num, board[r][c]))
            Blocks[r \in 0..size] ==
                IF r = 0 THEN <<>>
                ELSE Blocks[r - 1] \o RSeg([c \in 1..size |-> Code(r, c)])
        IN /\ g.out = OK
           /\ g.ret = PSeg(DictKeys(mark_to_num)) \o Blocks[size]

\* C12: a reset, after any sequence of calls, leaves a size x size grid whose
\* every cell is empty, and leaves the registry (both maps), the size, the
\* winning lines and the template it restores from as they were; no other
\* call alters the template either.
C12_ResetClearsGrid ==
    [][/\ phase = "board" => empty_board' = empty_board
       /\ last'.op = "reset" =>
            /\ IsSquare(board', size)
            /\ \A r \in 1..size : \A c \in 1..size : board'[r][c] = EMPTY
            /\ mark_to_num' = mark_to_num
            /\ num_to_mark' = num_to_mark
            /\ size' = size
            /\ winning_lines' = winning_lines]_vars

\* C12 happens: a reset of a grid that held marks, under a registry other
\* than the default one.
C12_Witness ==
    /\ last.op = "reset"
    /\ last.cell = "occupied"
    /\ mark_to_num # SetPlayers(None).m2n
    /\ \A r \in 1..size : \A c \in 1..size : board[r][c] = EMPTY

\* The number of cells of the grid that hold a mark.
Occupied(b) ==
    Cardinality({p \in (1..Len(b)) \X (1..Len(b)) : b[p[1]][p[2]] # EMPTY})

\* The grid is full and none of its lines is uniformly marked.
FullWithoutLine ==
    /\ phase = "board"
    /\ Occupied(board) = size * size
    /\ \A i \in 1..Len(LineOrder(size)) : ~Uniform(board, LineOrder(size)[i])

\* C13: every round of play_game ends: a round that has begun is recorded in
\* game_results, and a round whose grid is full without a winning line is
\* recorded as 'draw'.
C13_RoundsTerminate ==
    /\ (locals.pc = "prompt") ~> (locals.pc = "for_round")
    /\ (locals.pc = "prompt" /\ FullWithoutLine)
          ~> (/\ locals.pc = "for_round"
              /\ DictHas(locals.game_results, locals.game_round)
              /\ DictGet(locals.game_results, locals.game_round) = Draw)

\* C14: in a round of play_game a rejected input changes nothing and the same
\* player is asked again; an accepted one writes exactly one cell, with the
\* mark whose turn it is in registration order; the next step is then the
\* win check, before any other placement; and when the check reports a line,
\* the winner recorded for the round is the player who placed last and every
\* cell of the line holds that player's mark.
C14_TurnsAndWinner ==
    [][LET keys == DictKeys(mark_to_num)
           TurnMark(placed) == keys[(placed % Len(keys)) + 1]
           cells == (1..size) \X (1..size)
       IN /\ locals.pc = "prompt" =>
               \/ /\ locals' = locals
                  /\ board' = board
                  /\ last'.out # OK
               \/ /\ locals' = [locals EXCEPT !.pc = "check"]
                  /\ \E p \in cells :
                        /\ board[p[1]][p[2]] = EMPTY
                        /\ board'[p[1]][p[2]] = TurnMark(Occupied(board))
                        /\ \A q \in cells \ {p} : board'[q[1]][q[2]] = board[q[1]][q[2]]
          /\ locals.pc = "check" =>
               /\ board' = board
               /\ last'.op = "check_for_win"
               /\ IF last'.ret.t = "list"
                  THEN /\ locals'.pc = "end_round"
                       /\ locals'.winner = TurnMark(Occupied(board) - 1)
                       /\ \A i \in 1..Len(last'.ret.v) :
                             At(board, last'.ret.v[i]) = locals'.winner
                  ELSE /\ locals'.pc = "prompt"
                       /\ locals'.winner = Draw
          /\ locals.pc = "end_round" =>
               /\ board' = board
               /\ locals'.game_results =
                     Append(locals.game_results, <<locals.game_round, locals.winner>>)
      ]_vars

\* C14 happens: in a round on the 3 x 3 grid the second player has completed
\* a line while the first holds three cells, and is the winner.
C14_Witness ==
    /\ locals.pc = "end_round"
    /\ size = 3
    /\ locals.winner = <<"o">>
    /\ last.op = "check_for_win"
    /\ last.ret.t = "list"
    /\ Occupied(board) = 6

\* C15: random_board returns for every size >= 2 under fair random choice;
\* while placements are still to be made an empty cell remains, each
\* successful placement fills exactly one empty cell, and the board returned
\* has exactly count cells that are not empty (count in 0..size*size), all of
\* them holding registered marks.
C15_RandomBoardTerminates ==
    /\ (locals.pc = "loop") ~> (locals.pc = "returned")
    /\ [](locals.pc \in {"loop", "returned"} =>
            /\ size >= 2
            /\ locals.count \in 0..(size * size)
            /\ Occupied(board) = locals.done
            /\ locals.done < locals.count => Occupied(board) < size * size
            /\ locals.pc = "returned" => Occupied(board) = locals.count
            /\ \A r \in 1..size : \A c \in 1..size :
                  board[r][c] = EMPTY \/ board[r][c] \in Marks(mark_to_num))
    /\ [][locals.pc = "loop" =>
            \/ board' = board /\ locals'.done = locals.done
            \/ /\ locals'.done = locals.done + 1
               /\ Occupied(board') = Occupied(board) + 1
               /\ \A r \in 1..size : \A c \in 1..size :
                     board'[r][c] = board[r][c] \/ board[r][c] = EMPTY]_vars

\* C15 happens: random_board has returned a full grid, with both marks on it.
C15_Witness ==
    /\ locals.pc = "returned"
    /\ locals.count = size * size
    /\ Occupied(board) = size * size
    /\ \E r \in 1..size, c \in 1..size : board[r][c] = <<"x">>
    /\ \E r \in 1..size, c \in 1..size : board[r][c] = <<"o">>

====
